---------------------------- MODULE Spec2Model ----------------------------
(***************************************************************************)
(* Model of src/src/SmartHomeDashboard.jsx: the App component's state, its *)
(* four effects (authentication, feed listeners, simulated IoT hub,        *)
(* automation rules engine) and its UI handlers, together with the         *)
(* persistence feed (Firestore collections devices, history, rules) the    *)
(* component reads through onSnapshot and writes through setDoc, updateDoc *)
(* and addDoc.                                                             *)
(*                                                                         *)
(* JavaScript values are pairs <<tag, n>>: <<"bool", 0|1>>, <<"num", n>>,  *)
(* <<"nan", 0>>, <<"undef", 0>>.  Numbers are integers scaled by Scale     *)
(* (quarter degrees), so 75 is <<"num", 300>>.  Strings that the code      *)
(* parses are sequences of one-character strings.                          *)
(***************************************************************************)
EXTENDS Integers, Sequences, FiniteSets, TLC

VARIABLES
    userId,        \* useState(null): "null" or the signed-in uid
    isAuthReady,   \* useState(false)
    devices,       \* useState([]): local device snapshot, a sequence
    rules,         \* useState([]): local rule snapshot, a sequence
    historyData,   \* useState([]): the history buffer
    feedback,      \* useState({message:'', type:''})
    authCall,      \* position of initializeAppAndAuth: "pending" | "done"
    mounted,       \* the component is mounted (session open)
    storeDevices,  \* feed: devices collection, id -> document or NoDoc
    storeRules,    \* feed: rules collection, in document order
    storeHistory,  \* feed: history collection, in document order
    devFresh,      \* the devices listener has delivered the current store
    rulesFresh,    \* the rules listener has delivered the current store
    histFresh,     \* the history listener has delivered the current store
    inflight,      \* writes issued to the feed and not yet settled (FIFO)
    clock,         \* wall clock, in minutes (new Date() of the timer)
    events,        \* number of environment events so far: timer ticks
                   \* that acted, user actions, writes the feed rejected
    last           \* what the last step did: its kind, the rules that
                   \* fired, the writes it issued, its setFeedback calls,
                   \* the subscriptions it made, the errors it logged

vars == <<userId, isAuthReady, devices, rules, historyData, feedback,
          authCall, mounted, storeDevices, storeRules, storeHistory,
          devFresh, rulesFresh, histFresh, inflight, clock, events, last>>

-----------------------------------------------------------------------------
(* Bounds of the model. *)

MaxRules == 2        \* rules in a rule snapshot drawn by the engine runs
MaxEvents == 1       \* timer ticks, user actions and rejected writes
                     \* per run; user and timer events also wait while
                     \* this many writes are in flight
MaxClicks == 2       \* clicks on toggle buttons in a run of clicks alone
MaxBacklog == 3      \* writes in flight beyond which the engine runs
                     \* hold back the next devices snapshot

(* Program constants. *)

Scale == 4           \* one degree = Scale model units
HistoryWindow == 30  \* historyData keeps slice(-30)
DefaultTemp == 75    \* "|| 75" of the simulator; mockDevices currentTemp

-----------------------------------------------------------------------------
(* JavaScript values. *)

JsBool(b) == <<"bool", IF b THEN 1 ELSE 0>>
JsNum(n)  == <<"num", n>>
NaN       == <<"nan", 0>>
Undef     == <<"undef", 0>>
JsTrue    == JsBool(TRUE)
JsFalse   == JsBool(FALSE)

\* a === b: same type and same value; NaN equals nothing, itself included
StrictEq(a, b) == a[1] # "nan" /\ a = b

\* mutant of ToNumber: undefined converts to 0, as null does
ToNumberNullish(v) ==
    CASE v[1] = "num"   -> v
      [] v[1] = "bool"  -> <<"num", v[2] * Scale>>
      [] v[1] = "undef" -> <<"num", 0>>
      [] OTHER          -> <<"nan", 0>>

\* ToNumber, as applied by the relational operators
ToNumber(v) ==
    CASE v[1] = "num"   -> v
      [] v[1] = "bool"  -> JsNum(v[2] * Scale)
      [] OTHER          -> NaN

\* a > b and a < b on JavaScript values: false when either side is NaN
JsGreater(a, b) ==
    LET x == ToNumber(a)  y == ToNumber(b)
    IN  x[1] = "num" /\ y[1] = "num" /\ x[2] > y[2]

JsLess(a, b) ==
    LET x == ToNumber(a)  y == ToNumber(b)
    IN  x[1] = "num" /\ y[1] = "num" /\ x[2] < y[2]

\* truthiness (the "|| 75" of the simulator, "device.isOn &&" of the cards)
Truthy(v) ==
    CASE v[1] = "bool" -> v[2] = 1
      [] v[1] = "num"  -> v[2] # 0
      [] OTHER         -> FALSE

-----------------------------------------------------------------------------
(* parseFloat on a string given as a sequence of characters: leading       *)
(* blanks, an optional sign, digits, an optional fraction; the longest     *)
(* such prefix is the value, and NaN when it holds no digit.  (Exponents   *)
(* and "Infinity" are not modelled: no input of the model contains them.)  *)

DigitChars == {"0", "1", "2", "3", "4", "5", "6", "7", "8", "9"}

DigitVal(c) ==
    CASE c = "0" -> 0 [] c = "1" -> 1 [] c = "2" -> 2 [] c = "3" -> 3
      [] c = "4" -> 4 [] c = "5" -> 5 [] c = "6" -> 6 [] c = "7" -> 7
      [] c = "8" -> 8 [] c = "9" -> 9

RECURSIVE SkipBlanks(_, _)
SkipBlanks(s, i) ==
    IF i <= Len(s) /\ s[i] = " " THEN SkipBlanks(s, i + 1) ELSE i

\* the index after the run of digits that starts at i
RECURSIVE DigitsEnd(_, _)
DigitsEnd(s, i) ==
    IF i <= Len(s) /\ s[i] \in DigitChars THEN DigitsEnd(s, i + 1) ELSE i

\* the number written by the digits s[i..j-1]
RECURSIVE DigitsValue(_, _, _)
DigitsValue(s, i, j) ==
    IF j <= i THEN 0 ELSE DigitsValue(s, i, j - 1) * 10 + DigitVal(s[j - 1])

RECURSIVE Pow10(_)
Pow10(k) == IF k = 0 THEN 1 ELSE 10 * Pow10(k - 1)

parseFloat(s) ==
    LET b     == SkipBlanks(s, 1)
        neg   == b <= Len(s) /\ s[b] = "-"
        i     == IF b <= Len(s) /\ s[b] \in {"-", "+"} THEN b + 1 ELSE b
        j     == DigitsEnd(s, i)
        dot   == j <= Len(s) /\ s[j] = "."
        k     == IF dot THEN DigitsEnd(s, j + 1) ELSE j
        nfrac == IF dot THEN k - (j + 1) ELSE 0
        whole == DigitsValue(s, i, j)
        frac  == IF dot THEN DigitsValue(s, j + 1, k) ELSE 0
        mag   == whole * Scale + (frac * Scale) \div Pow10(nfrac)
    IN  IF j = i /\ nfrac = 0 THEN NaN
        ELSE JsNum(IF neg THEN 0 - mag ELSE mag)


-----------------------------------------------------------------------------
(* Strings the code compares or parses. *)

S_on   == <<"o", "n">>
S_off  == <<"o", "f", "f">>
S_75   == <<"7", "5">>
S_warm == <<"w", "a", "r", "m">>
S_1    == <<"1">>
S_none == <<>>

-----------------------------------------------------------------------------
(* Devices.  A device document carries id, type, isOn, currentTemp,        *)
(* targetTemp and brightness; a field a document does not have is Undef.   *)
(* (name, room, speed and humidity are written by seeding only and read by *)
(* the cards only; they are left out.)                                     *)

Device(id, type, isOn, currentTemp, targetTemp, brightness) ==
    [id |-> id, type |-> type, isOn |-> isOn, currentTemp |-> currentTemp,
     targetTemp |-> targetTemp, brightness |-> brightness]

\* what devices.find(...) returns when no element matches (undefined)
NoDoc == Device("", "", Undef, Undef, Undef, Undef)

Found(d) == d.id # ""

mockDevices == <<
    Device("thermostat-1", "thermostat", Undef,
           JsNum(DefaultTemp * Scale), JsNum(72 * Scale), Undef),
    Device("light-1", "light", JsTrue, Undef, Undef, JsNum(80 * Scale)),
    Device("fan-1", "fan", JsFalse, Undef, Undef, Undef),
    Device("light-2", "light", JsFalse, Undef, Undef, JsNum(50 * Scale)),
    Device("humidity-1", "humidity", Undef, Undef, Undef, Undef),
    Device("light-3", "light", JsTrue, Undef, Undef, JsNum(60 * Scale)) >>

\* the documents of the devices collection, in document-id order
IdOrder == <<"fan-1", "humidity-1", "light-1", "light-2", "light-3",
             "thermostat-1">>

DeviceIds == {IdOrder[i] : i \in 1..Len(IdOrder)}

MockDoc(id) ==
    LET i == CHOOSE k \in 1..Len(mockDevices) : mockDevices[k].id = id
    IN  mockDevices[i]

\* devices.find(d => d.id === id)
RECURSIVE findFrom(_, _, _)
findFrom(devs, id, i) ==
    IF i > Len(devs) THEN NoDoc
    ELSE IF devs[i].id = id THEN devs[i]
    ELSE findFrom(devs, id, i + 1)

find(devs, id) == findFrom(devs, id, 1)

\* snapshot.docs.map(doc => ({id: doc.id, ...doc.data()}))
RECURSIVE DocsFrom(_, _)
DocsFrom(store, i) ==
    IF i > Len(IdOrder) THEN <<>>
    ELSE (IF Found(store[IdOrder[i]]) THEN <<store[IdOrder[i]]>> ELSE <<>>)
         \o DocsFrom(store, i + 1)

DeviceList(store) == DocsFrom(store, 1)

EmptyStore == [id \in DeviceIds |-> NoDoc]
SeededStore == [id \in DeviceIds |-> MockDoc(id)]

-----------------------------------------------------------------------------
(* Rules. *)

Rule(name, td, tc, tv, ad, at, av) ==
    [name |-> name, triggerDevice |-> td, triggerCondition |-> tc,
     triggerValue |-> tv, actionDevice |-> ad, actionType |-> at,
     actionValue |-> av]

\* mutant of conditionMet: '==' compares the truthiness of isOn (loose
\* comparison), so a device without isOn counts as off
conditionMetLoose(triggerDevice, rule) ==
    LET triggerValue == parseFloat(rule.triggerValue)
    IN  CASE rule.triggerCondition = ">" ->
               JsGreater(triggerDevice.currentTemp, triggerValue)
          [] rule.triggerCondition = "<" ->
               JsLess(triggerDevice.currentTemp, triggerValue)
          [] rule.triggerCondition = "==" ->
               Truthy(triggerDevice.isOn) = (rule.triggerValue = S_on)
          [] OTHER -> FALSE

\* the switch on rule.triggerCondition
conditionMet(triggerDevice, rule) ==
    LET triggerValue == parseFloat(rule.triggerValue)
    IN  CASE rule.triggerCondition = ">" ->
               JsGreater(triggerDevice.currentTemp, triggerValue)
          [] rule.triggerCondition = "<" ->
               JsLess(triggerDevice.currentTemp, triggerValue)
          [] rule.triggerCondition = "==" ->
               StrictEq(triggerDevice.isOn, JsBool(rule.triggerValue = S_on))
          [] OTHER -> FALSE

\* mutant of actionValue: the actionType is not looked at
actionValueParsed(rule) == parseFloat(rule.actionValue)

\* rule.actionType === 'toggle' ? (rule.actionValue === 'on')
\*                              : parseFloat(rule.actionValue)
actionValue(rule) ==
    IF rule.actionType = "toggle" THEN JsBool(rule.actionValue = S_on)
    ELSE parseFloat(rule.actionValue)

\* mutant of Mutation: the update goes to the rule's trigger device
MutationOnTrigger(rule, value) ==
    [deviceId |-> rule.triggerDevice, field |-> "isOn", newValue |-> value,
     rule |-> rule.name]

Mutation(rule, value) ==
    [deviceId |-> rule.actionDevice, field |-> "isOn", newValue |-> value,
     rule |-> rule.name]

\* mutant of ruleBody: the guard of line 187 does not compare isOn
ruleBodyNoGuard(devs, rule) ==
    LET triggerDevice == find(devs, rule.triggerDevice)
        actionDevice  == find(devs, rule.actionDevice)
        value         == actionValue(rule)
    IN  IF ~Found(triggerDevice) THEN <<>>
        ELSE IF ~conditionMet(triggerDevice, rule) THEN <<>>
        ELSE IF Found(actionDevice) THEN <<Mutation(rule, value)>>
        ELSE <<>>

\* mutant of ruleBody: the guard of line 187 does not require the action
\* device to exist (actionDevice?.isOn !== actionValue)
ruleBodyNoActionCheck(devs, rule) ==
    LET triggerDevice == find(devs, rule.triggerDevice)
        actionDevice  == find(devs, rule.actionDevice)
        value         == actionValue(rule)
    IN  IF ~Found(triggerDevice) THEN <<>>
        ELSE IF ~conditionMet(triggerDevice, rule) THEN <<>>
        ELSE IF ~StrictEq(actionDevice.isOn, value)
             THEN <<Mutation(rule, value)>>
        ELSE <<>>

\* the body of rules.forEach for one rule: the mutation it emits, if any
ruleBody(devs, rule) ==
    LET triggerDevice == find(devs, rule.triggerDevice)
        actionDevice  == find(devs, rule.actionDevice)
        value         == actionValue(rule)
    IN  IF ~Found(triggerDevice) THEN <<>>
        ELSE IF ~conditionMet(triggerDevice, rule) THEN <<>>
        ELSE IF Found(actionDevice) /\ ~StrictEq(actionDevice.isOn, value)
             THEN <<Mutation(rule, value)>>
        ELSE <<>>

\* the device snapshot after mutation m is written and delivered back
applyMutation(devs, m) ==
    [i \in 1..Len(devs) |->
        IF devs[i].id = m.deviceId
        THEN [devs[i] EXCEPT ![m.field] = m.newValue]
        ELSE devs[i]]

\* rules.forEach(...): the mutations of one pass, in rule order
RECURSIVE evaluateFrom(_, _, _)
evaluateFrom(devs, rs, i) ==
    IF i > Len(rs) THEN <<>>
    ELSE ruleBody(devs, rs[i]) \o evaluateFrom(devs, rs, i + 1)

\* mutant of evaluate: each rule is judged against the snapshot as changed
\* by the mutations emitted before it in the same pass
RECURSIVE evaluateAccumulating(_, _)
evaluateAccumulating(devs, rs) ==
    IF rs = <<>> THEN <<>>
    ELSE LET m == ruleBody(devs, Head(rs))
         IN  m \o evaluateAccumulating(
                      IF m = <<>> THEN devs ELSE applyMutation(devs, m[1]),
                      Tail(rs))

evaluate(devs, rs) == evaluateFrom(devs, rs, 1)

-----------------------------------------------------------------------------
(* The history buffer: the history listener's projection of a snapshot.    *)

Sample(deviceId, value, timestamp) ==
    [deviceId |-> deviceId, value |-> value, timestamp |-> timestamp]

\* Array.prototype.sort with (a, b) => a.timestamp - b.timestamp is stable:
\* an element goes after every element whose timestamp is not larger
RECURSIVE InsertSorted(_, _)
InsertSorted(sorted, x) ==
    IF sorted = <<>> THEN <<x>>
    ELSE IF sorted[Len(sorted)].timestamp <= x.timestamp
         THEN Append(sorted, x)
    ELSE Append(InsertSorted(SubSeq(sorted, 1, Len(sorted) - 1), x),
                sorted[Len(sorted)])

RECURSIVE sortByTimestamp(_, _)
sortByTimestamp(data, n) ==
    IF n = 0 THEN <<>>
    ELSE InsertSorted(sortByTimestamp(data, n - 1), data[n])

IsThermostat1(d) == d.deviceId = "thermostat-1"

\* data.filter(d => d.deviceId === 'thermostat-1')
filteredHistory(data) == SelectSeq(data, IsThermostat1)

\* mutant of sliceLast: arr.slice(0, n)
sliceFirst(arr, n) ==
    IF Len(arr) <= n THEN arr ELSE SubSeq(arr, 1, n)

\* arr.slice(-n)
sliceLast(arr, n) ==
    IF Len(arr) <= n THEN arr ELSE SubSeq(arr, Len(arr) - n + 1, Len(arr))

\* what the history listener stores with setHistoryData
historyWindow(data) ==
    sliceLast(filteredHistory(sortByTimestamp(data, Len(data))),
              HistoryWindow)

-----------------------------------------------------------------------------
(* Writes issued to the feed. *)

NoRule == Rule("", "", "", S_none, "", "", S_none)

Write(coll, op, id, field, value, ts, doc, origin, by) ==
    [coll |-> coll, op |-> op, id |-> id, field |-> field, value |-> value,
     ts |-> ts, doc |-> doc, origin |-> origin, by |-> by]

\* setDoc(doc(deviceCollectionRef, device.id), device)
SeedWrite(device) ==
    Write("devices", "set", device.id, "*", Undef, 0, NoRule, "seed", "")

\* updateDoc(deviceRef, {[field]: value})
DeviceUpdate(id, field, value, origin, by) ==
    Write("devices", "update", id, field, value, 0, NoRule, origin, by)

\* addDoc(historyCollectionRef, {deviceId, value, timestamp})
HistoryAdd(deviceId, value, ts) ==
    Write("history", "add", deviceId, "value", value, ts, NoRule,
          "telemetry", "")

\* addDoc(rulesCollectionRef, newRule)
RuleAdd(rule) ==
    Write("rules", "add", "", "*", Undef, 0, rule, "form", "")

\* mockDevices.forEach(async device => { await setDoc(...) })
\* mutant of seedWrites: the loop stops after the first device
seedWritesFirstOnly == <<SeedWrite(mockDevices[1])>>

seedWrites == [i \in 1..Len(mockDevices) |-> SeedWrite(mockDevices[i])]

\* mutant of seedingFor: seeding whenever a default device is missing
seedingForIncomplete(deviceList) ==
    IF Len(deviceList) < Len(mockDevices) THEN seedWrites ELSE <<>>

\* lines 93-97: if (deviceList.length === 0) the six setDoc calls
seedingFor(deviceList) ==
    IF Len(deviceList) = 0 THEN seedWrites ELSE <<>>

\* the updateDoc calls of one engine pass, one per emitted mutation
\* mutant of engineWrites: a mutation whose write is already in flight is
\* not written again
engineWritesDeduplicated(muts) ==
    LET InFlight(m) ==
            \E i \in 1..Len(inflight) :
                /\ inflight[i].origin = "rule"
                /\ inflight[i].by = m.rule
                /\ inflight[i].id = m.deviceId
                /\ inflight[i].value = m.newValue
        Fresh(m) == ~InFlight(m)
        kept == SelectSeq(muts, Fresh)
    IN  [i \in 1..Len(kept) |->
            DeviceUpdate(kept[i].deviceId, kept[i].field, kept[i].newValue,
                         "rule", kept[i].rule)]

engineWrites(muts) ==
    [i \in 1..Len(muts) |->
        DeviceUpdate(muts[i].deviceId, muts[i].field, muts[i].newValue,
                     "rule", muts[i].rule)]

Feedback(text, name, type) == [message |-> <<text, name>>, type |-> type]

NoFeedback == Feedback("", "", "")

\* mutant of engineNotes: one setFeedback per pass, for the last mutation
engineNotesLastOnly(muts) ==
    IF muts = <<>> THEN <<>>
    ELSE <<Feedback("Rule triggered: ", muts[Len(muts)].rule, "success")>>

\* the setFeedback calls of one engine pass, one per emitted mutation
engineNotes(muts) ==
    [i \in 1..Len(muts) |->
        Feedback("Rule triggered: ", muts[i].rule, "success")]

\* the state of the feedback slot after the calls in notes
feedbackAfter(old, notes) ==
    IF notes = <<>> THEN old ELSE notes[Len(notes)]

\* what a step did
Step(kind, fired, writes, notes, subs, errors) ==
    [kind |-> kind, fired |-> fired, writes |-> writes, notes |-> notes,
     subs |-> subs, errors |-> errors]

\* mutant of Ready: the guard tests isAuthReady only
ReadyWithoutUser(ready, uid) == ready

\* the guard "if (!isAuthReady || !userId) return" of effects 2, 3 and 4
Ready(ready, uid) == ready /\ uid # "null"

\* mutant of enginePass: an engine that remembers what it has issued and
\* leaves out a mutation whose write is still in flight
enginePassRemembering(ready, uid, devs, rs) ==
    LET InFlight(m) ==
            \E i \in 1..Len(inflight) :
                /\ inflight[i].origin = "rule"
                /\ inflight[i].id = m.deviceId
                /\ inflight[i].value = m.newValue
        Fresh(m) == ~InFlight(m)
    IN  IF ready /\ uid # "null" THEN SelectSeq(evaluate(devs, rs), Fresh)
        ELSE <<>>

\* effect 4: the mutations of the pass run after a render, none when the
\* guard returns early
enginePass(ready, uid, devs, rs) ==
    IF Ready(ready, uid) THEN evaluate(devs, rs) ELSE <<>>

-----------------------------------------------------------------------------
(* What the caller of a rejected write does with the rejection. *)

\* the console.error of the call's catch; the setDoc of the seeding loop
\* (line 95) is awaited in an async callback without a catch, so its
\* rejection is an unhandled promise rejection
catchLog(w) ==
    CASE w.origin = "seed"      -> <<"unhandled rejection">>
      [] w.origin = "telemetry" ->
            IF w.coll = "history" THEN <<"Error adding history data: ">>
            ELSE <<"Error updating device temp: ">>
      [] w.origin = "rule"      -> <<"Error updating action device:">>
      [] w.origin = "toggle"    -> <<"Error toggling device:">>
      [] w.origin = "slider"    -> <<"Error updating device value:">>
      [] OTHER                  -> <<"Error adding rule: ">>

\* mutant of afterReject: the rejected write is issued again
afterRejectRetry(queue, w) == Append(Tail(queue), w)

\* the writes in flight once w, the oldest, is rejected: no catch issues
\* the write again
afterReject(queue, w) == Tail(queue)

-----------------------------------------------------------------------------
(* The feed: how a settled write changes a collection. *)

InsertAt(seq, pos, x) ==
    SubSeq(seq, 1, pos - 1) \o <<x>> \o SubSeq(seq, pos, Len(seq))

\* setDoc replaces the document; updateDoc sets one field of it
applyDeviceWrite(store, w) ==
    IF w.op = "set" THEN [store EXCEPT ![w.id] = MockDoc(w.id)]
    ELSE [store EXCEPT ![w.id] = [@ EXCEPT ![w.field] = w.value]]

\* updateDoc rejects when the document does not exist
Applicable(store, w) ==
    (w.coll = "devices" /\ w.op = "update") => Found(store[w.id])

\* auto-generated document ids put a new document anywhere in the
\* collection's order; the model takes the first or the last place
InsertPositions(w, hist, rs) ==
    CASE w.coll = "history" -> {1, Len(hist) + 1}
      [] w.coll = "rules"   -> {1, Len(rs) + 1}
      [] OTHER              -> {1}

-----------------------------------------------------------------------------
(* Actions. *)

\* lines 59-68: sign-in resolves; setUserId, setIsAuthReady(true); the
\* render that follows runs effect 2 (three onSnapshot subscriptions),
\* effect 3 (setInterval) and effect 4 (a pass over the empty snapshots)
AuthSucceeds ==
    /\ authCall = "pending"
    /\ authCall' = "done"
    /\ IF mounted
       THEN /\ userId' = "u1"
            /\ isAuthReady' = TRUE
            /\ last' = Step("auth-ok", enginePass(TRUE, "u1", devices, rules),
                            <<>>, <<>>, 3, <<>>)
       ELSE /\ UNCHANGED <<userId, isAuthReady>>
            /\ last' = Step("auth-ok", <<>>, <<>>, <<>>, 0, <<>>)
    /\ UNCHANGED <<devices, rules, historyData, feedback, mounted,
                   storeDevices, storeRules, storeHistory, devFresh,
                   rulesFresh, histFresh, inflight, clock, events>>

\* lines 69-72: sign-in rejects; console.error, setIsAuthReady(true);
\* userId stays null, so effects 2, 3 and 4 return at their guard
AuthFails ==
    /\ authCall = "pending"
    /\ authCall' = "done"
    /\ isAuthReady' = (IF mounted THEN TRUE ELSE isAuthReady)
    /\ last' = Step("auth-failed",
                    enginePass(isAuthReady', userId, devices, rules),
                    <<>>, <<>>,
                    IF mounted /\ Ready(isAuthReady', userId) THEN 3 ELSE 0,
                    <<"Error during authentication:">>)
    /\ UNCHANGED <<userId, devices, rules, historyData, feedback, mounted,
                   storeDevices, storeRules, storeHistory, devFresh,
                   rulesFresh, histFresh, inflight, clock, events>>

\* mutant of Listening: the listeners outlive the component
ListeningUnmounted == Ready(isAuthReady, userId)

\* the listeners of effect 2 exist while the component is mounted and the
\* guard of line 80 passed
Listening == mounted /\ Ready(isAuthReady, userId)

\* lines 88-98 and the effects the render runs: setDevices, seeding when
\* the snapshot is empty, then the pass of effect 4 over the new devices
DevicesSnapshot ==
    /\ Listening
    /\ ~devFresh
    /\ \E deviceList \in {DeviceList(storeDevices)} :
       \E seeds \in {seedingFor(deviceList)},
          muts \in {enginePass(isAuthReady, userId, deviceList, rules)} :
           /\ devices' = deviceList
           /\ inflight' = inflight \o seeds \o engineWrites(muts)
           /\ feedback' = feedbackAfter(feedback, engineNotes(muts))
           /\ last' = Step("devices", muts, seeds \o engineWrites(muts),
                           engineNotes(muts), 0, <<>>)
    /\ devFresh' = TRUE
    /\ UNCHANGED <<userId, isAuthReady, rules, historyData, authCall,
                   mounted, storeDevices, storeRules, storeHistory,
                   rulesFresh, histFresh, clock, events>>

\* lines 110-112 and the pass of effect 4 over the new rules
RulesSnapshot ==
    /\ Listening
    /\ ~rulesFresh
    /\ \E muts \in {enginePass(isAuthReady, userId, devices, storeRules)} :
           /\ rules' = storeRules
           /\ inflight' = inflight \o engineWrites(muts)
           /\ feedback' = feedbackAfter(feedback, engineNotes(muts))
           /\ last' = Step("rules", muts, engineWrites(muts),
                           engineNotes(muts), 0, <<>>)
    /\ rulesFresh' = TRUE
    /\ UNCHANGED <<userId, isAuthReady, devices, historyData, authCall,
                   mounted, storeDevices, storeRules, storeHistory,
                   devFresh, histFresh, clock, events>>

\* lines 101-107: sort, filter, slice(-30), setHistoryData; no effect
\* depends on historyData
HistorySnapshot ==
    /\ Listening
    /\ ~histFresh
    /\ historyData' = historyWindow(storeHistory)
    /\ histFresh' = TRUE
    /\ last' = Step("history", <<>>, <<>>, <<>>, 0, <<>>)
    /\ UNCHANGED <<userId, isAuthReady, devices, rules, feedback, authCall,
                   mounted, storeDevices, storeRules, storeHistory,
                   devFresh, rulesFresh, inflight, clock, events>>

\* a + b on JavaScript values that are not strings
JsAdd(a, b) ==
    LET x == ToNumber(a)  y == ToNumber(b)
    IN  IF x[1] = "num" /\ y[1] = "num" THEN JsNum(x[2] + y[2]) ELSE NaN

\* !v
JsNot(v) == JsBool(~Truthy(v))

\* (Math.random() - 0.5) * 1.5 lies in [-0.75, 0.75): the extremes and zero
Deltas == {0 - 3, 0, 2}

\* devices.find(d => d.id === 'thermostat-1')?.currentTemp
\*     + randomTempChange || 75
newTemp(devs, delta) ==
    LET sum == JsAdd(find(devs, "thermostat-1").currentTemp, JsNum(delta))
    IN  IF Truthy(sum) THEN sum ELSE JsNum(DefaultTemp * Scale)

\* lines 129-149: a timer tick at second 0 of a minute (the ticks at other
\* seconds do nothing): one addDoc to history, one updateDoc of
\* thermostat-1.currentTemp
TelemetryTick ==
    /\ mounted
    /\ Ready(isAuthReady, userId)
    /\ events < MaxEvents
    /\ Len(inflight) < MaxEvents
    /\ \E delta \in Deltas :
         LET t == newTemp(devices, delta)
             w == <<HistoryAdd("thermostat-1", t, clock + 1),
                    DeviceUpdate("thermostat-1", "currentTemp", t,
                                 "telemetry", "")>>
         IN  /\ inflight' = inflight \o w
             /\ last' = Step("tick", <<>>, w, <<>>, 0, <<>>)
    /\ clock' = clock + 1
    /\ events' = events + 1
    /\ UNCHANGED <<userId, isAuthReady, devices, rules, historyData,
                   feedback, authCall, mounted, storeDevices, storeRules,
                   storeHistory, devFresh, rulesFresh, histFresh>>

\* the feed settles the oldest write in flight: it is applied to its
\* collection, or it is rejected and the caller's catch logs it (the seeding
\* setDoc of line 95 has no catch; handleRuleSubmit sets the feedback)
WriteLands ==
    /\ inflight # <<>>
    /\ LET w == Head(inflight)
       IN  \E ok \in BOOLEAN, pos \in InsertPositions(w, storeHistory,
                                                       storeRules) :
             LET applied == ok /\ Applicable(storeDevices, w)
                 newDevices == IF applied /\ w.coll = "devices"
                               THEN applyDeviceWrite(storeDevices, w)
                               ELSE storeDevices
                 newHistory == IF applied /\ w.coll = "history"
                               THEN InsertAt(storeHistory, pos,
                                             Sample(w.id, w.value, w.ts))
                               ELSE storeHistory
                 newRules == IF applied /\ w.coll = "rules"
                             THEN InsertAt(storeRules, pos, w.doc)
                             ELSE storeRules
                 note == IF w.origin = "form" /\ mounted
                         THEN IF applied
                              THEN <<Feedback("Rule created successfully!",
                                              "", "success")>>
                              ELSE <<Feedback("Failed to create rule.", "",
                                              "error")>>
                         ELSE <<>>
                 errors == IF applied THEN <<>> ELSE catchLog(w)
             IN  /\ (~ok => pos = 1 /\ events < MaxEvents)
                 /\ events' = (IF ok THEN events ELSE events + 1)
                 /\ storeDevices' = newDevices
                 /\ storeHistory' = newHistory
                 /\ storeRules' = newRules
                 /\ devFresh' = (devFresh /\ newDevices = storeDevices)
                 /\ histFresh' = (histFresh /\ newHistory = storeHistory)
                 /\ rulesFresh' = (rulesFresh /\ newRules = storeRules)
                 /\ feedback' = feedbackAfter(feedback, note)
                 /\ last' = Step("land", <<>>, <<>>, note, 0, errors)
                 /\ inflight' = (IF applied THEN Tail(inflight)
                                 ELSE afterReject(inflight, w))
    /\ UNCHANGED <<userId, isAuthReady, devices, rules, historyData,
                   authCall, mounted, clock>>

\* a card of renderDeviceCard with a toggle button (lines 266-318)
HasToggle(d) == d.type \in {"light", "fan"}

\* lines 200-203, called from the button of a rendered light or fan card
\* with the isOn the card shows
\* mutant of toggled: the negation of the persisted isOn
toggledPersisted(d) == JsNot(storeDevices[d.id].isOn)

\* !currentStatus, currentStatus being the isOn of the rendered card
\* (lines 276 and 309)
toggled(d) == JsNot(d.isOn)

\* a click on the toggle button of a rendered card
toggleClick ==
    /\ mounted
    /\ \E i \in 1..Len(devices) :
         /\ HasToggle(devices[i])
         /\ LET w == <<DeviceUpdate(devices[i].id, "isOn",
                                    toggled(devices[i]), "toggle", "")>>
            IN  /\ inflight' = inflight \o w
                /\ last' = Step("toggle", <<>>, w, <<>>, 0, <<>>)
    /\ UNCHANGED <<userId, isAuthReady, devices, rules, historyData,
                   feedback, authCall, mounted, storeDevices, storeRules,
                   storeHistory, devFresh, rulesFresh, histFresh, clock>>

handleToggle ==
    /\ events < MaxEvents
    /\ Len(inflight) < MaxEvents
    /\ toggleClick
    /\ events' = events + 1

\* the sliders of the cards: targetTemp of a thermostat (min 60, max 85),
\* brightness of a light that is on (min 0, max 100)
SliderInputs(d) ==
    IF d.type = "thermostat"
    THEN {<<"targetTemp", JsNum(60 * Scale)>>,
          <<"targetTemp", JsNum(85 * Scale)>>}
    ELSE IF d.type = "light" /\ Truthy(d.isOn)
    THEN {<<"brightness", JsNum(0)>>, <<"brightness", JsNum(100 * Scale)>>}
    ELSE {}

\* lines 206-209
handleSliderChange ==
    /\ mounted
    /\ events < MaxEvents
    /\ Len(inflight) < MaxEvents
    /\ \E i \in 1..Len(devices) :
         \E kv \in SliderInputs(devices[i]) :
           LET w == <<DeviceUpdate(devices[i].id, kv[1], kv[2], "slider",
                                   "")>>
           IN  /\ inflight' = inflight \o w
               /\ last' = Step("slider", <<>>, w, <<>>, 0, <<>>)
    /\ events' = events + 1
    /\ UNCHANGED <<userId, isAuthReady, devices, rules, historyData,
                   feedback, authCall, mounted, storeDevices, storeRules,
                   storeHistory, devFresh, rulesFresh, histFresh, clock>>

\* the rule-creation form (lines 343-420): what newRule can hold when
\* handleRuleSubmit runs.  No input sets actionType, so it is '' as in line
\* 52; the two selects offer the devices of the local snapshot.  The six
\* inputs carry the attribute "required", which a browser enforces before
\* it fires the submit event; the handler itself is modelled for every
\* newRule, as when the event is dispatched without that validation
FullForm == Rule("Cool down", "thermostat-1", ">", S_75, "fan-1", "", S_on)

FormFields == {"name", "triggerDevice", "triggerValue", "actionDevice"}

Blanked(r, f) ==
    [r EXCEPT ![f] = IF f \in {"triggerValue", "actionValue"} THEN S_none
                     ELSE ""]

Selectable(devs, id) == id = "" \/ Found(find(devs, id))

FormInputs(devs) ==
    {r \in {FullForm, NoRule} \cup {Blanked(FullForm, f) : f \in FormFields} :
        Selectable(devs, r.triggerDevice) /\ Selectable(devs, r.actionDevice)}

\* !newRule.name || !newRule.triggerDevice || !newRule.actionDevice
formRejected(r) == r.name = "" \/ r.triggerDevice = "" \/ r.actionDevice = ""

\* lines 212-233: the check of line 214, then addDoc; the feedback of lines
\* 222 and 231 is set when the addDoc settles (WriteLands)
handleRuleSubmit ==
    /\ mounted
    /\ events < MaxEvents
    /\ Len(inflight) < MaxEvents
    /\ \E newRule \in FormInputs(devices) :
         IF formRejected(newRule)
         THEN LET note == <<Feedback("All fields are required.", "",
                                     "error")>>
              IN  /\ feedback' = feedbackAfter(feedback, note)
                  /\ last' = Step("submit", <<>>, <<>>, note, 0, <<>>)
                  /\ UNCHANGED inflight
         ELSE /\ inflight' = Append(inflight, RuleAdd(newRule))
              /\ last' = Step("submit", <<>>, <<RuleAdd(newRule)>>, <<>>, 0,
                              <<>>)
              /\ UNCHANGED feedback
    /\ events' = events + 1
    /\ UNCHANGED <<userId, isAuthReady, devices, rules, historyData,
                   authCall, mounted, storeDevices, storeRules,
                   storeHistory, devFresh, rulesFresh, histFresh, clock>>

\* the cleanups of lines 115-119 and 151: the three listeners are detached
\* and the interval is cleared
Unmount ==
    /\ mounted
    /\ mounted' = FALSE
    /\ last' = Step("unmount", <<>>, <<>>, <<>>, 0, <<>>)
    /\ UNCHANGED <<userId, isAuthReady, devices, rules, historyData,
                   feedback, authCall, storeDevices, storeRules,
                   storeHistory, devFresh, rulesFresh, histFresh, inflight,
                   clock, events>>

-----------------------------------------------------------------------------
(* The session from the mount of the component.  The feed holds what an    *)
(* earlier session left: nothing, or the seeded devices and a rule.        *)

StoredRules == <<
    Rule("Fan with light", "light-1", "==", S_on, "fan-1", "toggle", S_on),
    Rule("Kitchen with light", "light-1", "==", S_on, "light-2", "toggle",
         S_on) >>

Init ==
    /\ userId = "null"
    /\ isAuthReady = FALSE
    /\ devices = <<>>
    /\ rules = <<>>
    /\ historyData = <<>>
    /\ feedback = NoFeedback
    /\ authCall = "pending"
    /\ mounted = TRUE
    /\ storeDevices \in {EmptyStore, SeededStore}
    /\ storeRules \in {<<>>, StoredRules}
    /\ storeHistory = <<>>
    /\ devFresh = FALSE
    /\ rulesFresh = FALSE
    /\ histFresh = FALSE
    /\ inflight = <<>>
    /\ clock = 0
    /\ events = 0
    /\ last = Step("mount", <<>>, <<>>, <<>>, 0, <<>>)

Next ==
    \/ AuthSucceeds
    \/ AuthFails
    \/ DevicesSnapshot
    \/ RulesSnapshot
    \/ HistorySnapshot
    \/ TelemetryTick
    \/ WriteLands
    \/ handleToggle
    \/ handleSliderChange
    \/ handleRuleSubmit
    \/ Unmount

Spec == Init /\ [][Next]_vars

-----------------------------------------------------------------------------
(* The closed loop of the rules engine over arbitrary snapshots: the       *)
(* session is signed in, the devices listener has delivered the devices    *)
(* collection, the rules listener is about to deliver the rules            *)
(* collection; from there only the feed acts (a write settles, a snapshot  *)
(* is delivered, effect 4 runs): no timer tick, no user action, no         *)
(* rejected write.                                                         *)

TriggerSides == {
    <<"thermostat-1", ">", S_75>>,
    <<"thermostat-1", "<", S_75>>,
    <<"thermostat-1", ">", S_warm>>,
    <<"light-1", "<", S_75>>,
    <<"light-1", "==", S_on>>,
    <<"missing-1", ">", S_75>> }

ActionSides == {
    <<"fan-1", "toggle", S_on>>,
    <<"fan-1", "toggle", S_off>>,
    <<"fan-1", "", S_on>>,
    <<"missing-1", "toggle", S_on>> }

RuleNames == <<"rule 1", "rule 2", "rule 3", "rule 4">>

RulesOver(triggers, actions, n) ==
    {[i \in 1..n |-> Rule(RuleNames[i], t[i][1], t[i][2], t[i][3],
                          a[i][1], a[i][2], a[i][3])] :
        t \in [1..n -> triggers], a \in [1..n -> actions]}

\* the rule snapshots of up to max rules
RuleSeqs(triggers, actions, max) ==
    UNION {RulesOver(triggers, actions, n) : n \in 0..max}

EngineStores ==
    {[SeededStore EXCEPT !["thermostat-1"].currentTemp = JsNum(t * Scale),
                         !["fan-1"].isOn = f] :
        t \in {74, 76}, f \in {JsFalse, JsTrue}}

LoopInit(stores, ruleSeqs) ==
    /\ userId = "u1"
    /\ isAuthReady = TRUE
    /\ authCall = "done"
    /\ mounted = TRUE
    /\ storeDevices \in stores
    /\ storeRules \in ruleSeqs
    /\ storeHistory = <<>>
    /\ devices = DeviceList(storeDevices)
    /\ rules = <<>>
    /\ historyData = <<>>
    /\ feedback = NoFeedback
    /\ devFresh = TRUE
    /\ rulesFresh = FALSE
    /\ histFresh = TRUE
    /\ inflight = <<>>
    /\ clock = 0
    /\ events = MaxEvents
    /\ last = Step("devices", <<>>, <<>>, <<>>, 0, <<>>)

EngineInit ==
    LoopInit(EngineStores, RuleSeqs(TriggerSides, ActionSides, MaxRules))

\* the devices listener of the loop: the feed delivers a snapshot while
\* fewer than MaxBacklog writes wait to settle (rules that keep writing
\* would let the queue grow without end)
LoopDevicesSnapshot ==
    /\ Len(inflight) < MaxBacklog
    /\ DevicesSnapshot

EngineNext ==
    \/ RulesSnapshot
    \/ WriteLands
    \/ LoopDevicesSnapshot

SpecEngine == EngineInit /\ [][EngineNext]_vars

\* The same loop under fairness: the feed settles every write in flight and
\* delivers every change of a collection to its listener.  The rules are
\* those a thermostat or a light can trigger on the fan.
FairTriggers == {<<"thermostat-1", ">", S_75>>, <<"light-1", "==", S_on>>}

FairActions == {<<"fan-1", "toggle", S_on>>, <<"fan-1", "toggle", S_off>>,
                <<"fan-1", "", S_on>>}

FairInit ==
    LoopInit(EngineStores, RuleSeqs(FairTriggers, FairActions, MaxRules))

FairEngine == FairInit /\ [][EngineNext]_vars /\ WF_vars(EngineNext)

-----------------------------------------------------------------------------
(* The same loop for rules with the condition '==': on a light that is on  *)
(* or off, on a fan whose isOn a rule of the form can turn into NaN, and   *)
(* on devices without isOn (thermostat, humidity sensor).                  *)

EqualsTriggers == {
    <<"light-1", "==", S_on>>,
    <<"light-1", "==", S_off>>,
    <<"light-1", "==", S_warm>>,
    <<"fan-1", "==", S_off>>,
    <<"thermostat-1", "==", S_off>>,
    <<"humidity-1", "==", S_off>> }

EqualsActions == {
    <<"light-2", "toggle", S_on>>,
    <<"fan-1", "", S_on>> }

EqualsStores ==
    {[SeededStore EXCEPT !["light-1"].isOn = l, !["fan-1"].isOn = f] :
        l \in {JsFalse, JsTrue}, f \in {JsFalse, JsTrue}}

EqualsInit ==
    LoopInit(EqualsStores, RuleSeqs(EqualsTriggers, EqualsActions, MaxRules))

SpecEquals == EqualsInit /\ [][EngineNext]_vars

-----------------------------------------------------------------------------
(* One 'toggle' rule whose trigger holds throughout (thermostat-1 stays at *)
(* 76 against "75": no timer tick), while the user toggles lights and the  *)
(* fan.  Every write is accepted; the feed is fair: a write in flight      *)
(* settles and a changed collection is delivered to its listener.          *)

EnforcedRules ==
    {<<Rule("rule 1", "thermostat-1", ">", S_75, a[1], "toggle", a[2])>> :
        a \in {<<"fan-1", S_on>>, <<"fan-1", S_off>>, <<"light-2", S_on>>}}

EnforceStores ==
    {[SeededStore EXCEPT !["thermostat-1"].currentTemp = JsNum(76 * Scale),
                         !["fan-1"].isOn = f,
                         !["light-2"].isOn = l] :
        f \in {JsFalse, JsTrue}, l \in {JsFalse, JsTrue}}

EnforceInit ==
    /\ userId = "u1"
    /\ isAuthReady = TRUE
    /\ authCall = "done"
    /\ mounted = TRUE
    /\ storeDevices \in EnforceStores
    /\ storeRules \in EnforcedRules
    /\ storeHistory = <<>>
    /\ devices = DeviceList(storeDevices)
    /\ rules = <<>>
    /\ historyData = <<>>
    /\ feedback = NoFeedback
    /\ devFresh = TRUE
    /\ rulesFresh = FALSE
    /\ histFresh = TRUE
    /\ inflight = <<>>
    /\ clock = 0
    /\ events = 0
    /\ last = Step("devices", <<>>, <<>>, <<>>, 0, <<>>)

\* a write settles and is accepted
WriteSucceeds ==
    /\ WriteLands
    /\ last'.errors = <<>>

EnforceNext ==
    \/ RulesSnapshot
    \/ DevicesSnapshot
    \/ WriteSucceeds
    \/ handleToggle

FairEnforce ==
    /\ EnforceInit
    /\ [][EnforceNext]_vars
    /\ WF_vars(RulesSnapshot)
    /\ WF_vars(DevicesSnapshot)
    /\ WF_vars(WriteSucceeds)

-----------------------------------------------------------------------------
(* Clicks on the toggle buttons of a session without rules: a click does   *)
(* not wait for the writes of earlier clicks, so a button can be clicked   *)
(* again while the card still shows the old isOn.                          *)

ClickInit ==
    /\ userId = "u1"
    /\ isAuthReady = TRUE
    /\ authCall = "done"
    /\ mounted = TRUE
    /\ storeDevices = SeededStore
    /\ storeRules = <<>>
    /\ storeHistory = <<>>
    /\ devices = DeviceList(storeDevices)
    /\ rules = <<>>
    /\ historyData = <<>>
    /\ feedback = NoFeedback
    /\ devFresh = TRUE
    /\ rulesFresh = TRUE
    /\ histFresh = TRUE
    /\ inflight = <<>>
    /\ clock = 0
    /\ events = 0
    /\ last = Step("devices", <<>>, <<>>, <<>>, 0, <<>>)

ClickToggle ==
    /\ events < MaxClicks
    /\ toggleClick
    /\ events' = events + 1

ClickNext ==
    \/ ClickToggle
    \/ WriteSucceeds
    \/ DevicesSnapshot

SpecClicks == ClickInit /\ [][ClickNext]_vars

-----------------------------------------------------------------------------
(* A fresh session: signed in, nothing delivered yet, an empty devices     *)
(* collection.  The store accepts every write (an updateDoc of a document  *)
(* that does not exist still rejects), the timer ticks, and the feed is    *)
(* fair.                                                                   *)

FreshInit ==
    /\ userId = "u1"
    /\ isAuthReady = TRUE
    /\ authCall = "done"
    /\ mounted = TRUE
    /\ storeDevices = EmptyStore
    /\ storeRules \in {<<>>, StoredRules}
    /\ storeHistory = <<>>
    /\ devices = <<>>
    /\ rules = <<>>
    /\ historyData = <<>>
    /\ feedback = NoFeedback
    /\ devFresh = FALSE
    /\ rulesFresh = FALSE
    /\ histFresh = TRUE
    /\ inflight = <<>>
    /\ clock = 0
    /\ events = 0
    /\ last = Step("auth-ok", <<>>, <<>>, <<>>, 3, <<>>)

\* a write settles in a store that refuses nothing
WriteServed ==
    /\ WriteLands
    /\ events' = events

FreshNext ==
    \/ DevicesSnapshot
    \/ RulesSnapshot
    \/ HistorySnapshot
    \/ WriteServed
    \/ TelemetryTick

FairFresh ==
    /\ FreshInit
    /\ [][FreshNext]_vars
    /\ WF_vars(DevicesSnapshot)
    /\ WF_vars(RulesSnapshot)
    /\ WF_vars(WriteServed)

-----------------------------------------------------------------------------
(* The history feed of a session whose history collection already holds    *)
(* samples: in document order (not time order), some of another device.    *)
(* The session is signed in, devices and rules are delivered, the history  *)
(* listener is about to deliver; the timer ticks and the feed acts.        *)

\* n earlier samples with the timestamps 1..n in a scrambled document order
\* (i -> 7i mod (n+1) permutes 1..n when n+1 has no factor 7); every fifth
\* document belongs to another device
PriorLog(n) ==
    [i \in 1..n |->
        Sample(IF i % 5 = 0 THEN "fan-1" ELSE "thermostat-1",
               JsNum(DefaultTemp * Scale), (i * 7) % (n + 1))]

\* with 0, 29 and 31 samples of thermostat-1
PriorLogs == {PriorLog(0), PriorLog(HistoryWindow + 6),
              PriorLog(HistoryWindow + 8)}

HistoryInit ==
    /\ userId = "u1"
    /\ isAuthReady = TRUE
    /\ authCall = "done"
    /\ mounted = TRUE
    /\ storeDevices = SeededStore
    /\ storeRules = <<>>
    /\ storeHistory \in PriorLogs
    /\ devices = DeviceList(storeDevices)
    /\ rules = <<>>
    /\ historyData = <<>>
    /\ feedback = NoFeedback
    /\ devFresh = TRUE
    /\ rulesFresh = TRUE
    /\ histFresh = FALSE
    /\ inflight = <<>>
    /\ clock = Len(storeHistory)
    /\ events = 0
    /\ last = Step("rules", <<>>, <<>>, <<>>, 0, <<>>)

HistoryNext ==
    \/ TelemetryTick
    \/ WriteLands
    \/ HistorySnapshot
    \/ DevicesSnapshot

SpecHistory == HistoryInit /\ [][HistoryNext]_vars

-----------------------------------------------------------------------------
(* The session from the moment the sign-in has succeeded, while it stays   *)
(* mounted: the listeners deliver their first snapshots, the feed settles  *)
(* writes, the timer ticks and the user toggles and slides.  The devices   *)
(* collection starts empty (the seeding case), seeded, or seeded with a    *)
(* thermostat that earlier sessions' readings have taken down to 0.75.     *)

ColdStore ==
    [SeededStore EXCEPT !["thermostat-1"].currentTemp = JsNum(3)]

SignedInInit ==
    /\ userId = "u1"
    /\ isAuthReady = TRUE
    /\ authCall = "done"
    /\ mounted = TRUE
    /\ storeDevices \in {EmptyStore, SeededStore, ColdStore}
    /\ storeRules \in {<<>>, StoredRules}
    /\ storeHistory = <<>>
    /\ devices = <<>>
    /\ rules = <<>>
    /\ historyData = <<>>
    /\ feedback = NoFeedback
    /\ devFresh = FALSE
    /\ rulesFresh = FALSE
    /\ histFresh = TRUE
    /\ inflight = <<>>
    /\ clock = 0
    /\ events = 0
    /\ last = Step("auth-ok", <<>>, <<>>, <<>>, 3, <<>>)

SignedInNext ==
    \/ DevicesSnapshot
    \/ RulesSnapshot
    \/ WriteLands
    \/ TelemetryTick
    \/ handleToggle
    \/ handleSliderChange

SpecSignedIn == SignedInInit /\ [][SignedInNext]_vars

-----------------------------------------------------------------------------
(* Vocabulary of the properties. *)

\* the last step ran a pass of effect 4 over the current (devices, rules)
PassDone == last.kind \in {"devices", "rules"}

DeviceIdsOf(devs) == {devs[i].id : i \in 1..Len(devs)}

\* the mutations of fired that rule number k of rs emitted
FiredBy(fired, rs, k) ==
    {i \in 1..Len(fired) : fired[i].rule = rs[k].name}

Dangling(devs, rule) ==
    \/ rule.triggerDevice \notin DeviceIdsOf(devs)
    \/ rule.actionDevice \notin DeviceIdsOf(devs)

NotDangling(rule) == ~Dangling(devices, rule)

DistinctNames(rs) ==
    \A i, j \in 1..Len(rs) : rs[i].name = rs[j].name => i = j

-----------------------------------------------------------------------------
\* C1: if a pass over (D, R) emits a mutation M for device X and M is
\* applied to D giving D', a pass over (D', R) emits no mutation for X,
\* for every rule set (any actionType, several rules on X).
C1_Idempotent ==
    PassDone =>
        \A i \in 1..Len(last.fired) :
            LET again == evaluate(applyMutation(devices, last.fired[i]),
                                  rules)
            IN  \A j \in 1..Len(again) :
                    again[j].deviceId # last.fired[i].deviceId

\* C2: in the closed loop, from any devices and any rules, the engine stops
\* writing: eventually no write is in flight and no snapshot is pending,
\* for good.
Quiescent == inflight = <<>> /\ devFresh /\ rulesFresh

C2_LoopTerminates == <>[]Quiescent

\* C3: every value a pass writes to isOn is the boolean
\* (actionValue == "on") of its rule, whatever the rule's actionType.
C3_WritesBoolean ==
    PassDone =>
        \A k \in 1..Len(rules) :
            \A i \in FiredBy(last.fired, rules, k) :
                last.fired[i].newValue = JsBool(rules[k].actionValue = S_on)

\* C4: a rule with condition '>' or '<' and actionType 'toggle' emits the
\* mutation {actionDevice, isOn, actionValue == "on"} exactly when its
\* trigger device exists, that device's currentTemp is a number that
\* compares as required with the parsed triggerValue, its action device
\* exists and that device's isOn differs from the desired value; otherwise
\* it emits nothing.
ThresholdToggle(rule) ==
    rule.triggerCondition \in {">", "<"} /\ rule.actionType = "toggle"

ShouldEmit(devs, rule) ==
    \E t \in 1..Len(devs), a \in 1..Len(devs) :
        /\ devs[t].id = rule.triggerDevice
        /\ devs[a].id = rule.actionDevice
        /\ devs[t].currentTemp[1] = "num"
        /\ parseFloat(rule.triggerValue)[1] = "num"
        /\ IF rule.triggerCondition = ">"
           THEN devs[t].currentTemp[2] > parseFloat(rule.triggerValue)[2]
           ELSE devs[t].currentTemp[2] < parseFloat(rule.triggerValue)[2]
        /\ devs[a].isOn # JsBool(rule.actionValue = S_on)

C4_ThresholdToggle ==
    (PassDone /\ DistinctNames(rules)) =>
        \A k \in 1..Len(rules) :
            ThresholdToggle(rules[k]) =>
                LET mine == FiredBy(last.fired, rules, k)
                IN  IF ShouldEmit(devices, rules[k])
                    THEN /\ Cardinality(mine) = 1
                         /\ \A i \in mine :
                              /\ last.fired[i].deviceId
                                     = rules[k].actionDevice
                              /\ last.fired[i].field = "isOn"
                              /\ last.fired[i].newValue
                                     = JsBool(rules[k].actionValue = S_on)
                    ELSE mine = {}

\* the scenario of the claim: currentTemp 76 > "75", fan off, one mutation
\* setting the fan on
C4_Witness ==
    /\ PassDone
    /\ \E k \in 1..Len(rules) :
         /\ ThresholdToggle(rules[k])
         /\ rules[k].triggerCondition = ">"
         /\ rules[k].triggerValue = S_75
         /\ rules[k].actionValue = S_on
         /\ find(devices, rules[k].triggerDevice).currentTemp
                = JsNum(76 * Scale)
         /\ find(devices, rules[k].actionDevice).isOn = JsFalse
         /\ FiredBy(last.fired, rules, k) # {}

\* C5: a rule whose triggerDevice or actionDevice is not in the device
\* snapshot causes no write, no notification and no error, and the pass
\* emits what it would emit without that rule.
C5_DanglingTolerated ==
    (PassDone /\ DistinctNames(rules)) =>
        /\ last.errors = <<>>
        /\ \A k \in 1..Len(rules) :
             Dangling(devices, rules[k]) =>
                /\ FiredBy(last.fired, rules, k) = {}
                /\ \A i \in 1..Len(last.writes) :
                     last.writes[i].by # rules[k].name
                /\ \A i \in 1..Len(last.notes) :
                     last.notes[i].message[2] # rules[k].name
        /\ last.fired = evaluate(devices, SelectSeq(rules, NotDangling))

\* a dangling rule comes first and a later rule of the same pass fires
C5_Witness ==
    /\ PassDone
    /\ Len(rules) >= 2
    /\ Dangling(devices, rules[1])
    /\ ~Dangling(devices, rules[2])
    /\ FiredBy(last.fired, rules, 2) # {}

\* C6 (as claimed): when two rules whose conditions hold target the same
\* device, a later rule does not additionally fire: a pass emits at most
\* one mutation per device and desired value.  (Stated for boolean values,
\* the ones the claim intends.)
C6_OnePerDeviceAndValue ==
    PassDone =>
        \A i, j \in 1..Len(last.fired) :
            (/\ last.fired[i].deviceId = last.fired[j].deviceId
             /\ last.fired[i].newValue[1] = "bool"
             /\ last.fired[i].newValue = last.fired[j].newValue) => i = j

\* C6 (amended): a pass judges every rule against the input snapshot alone.
\* A rule emits in a pass exactly when it would emit as the only rule, the
\* mutations come out in rule-sequence order, and so two rules that hold,
\* target the same device and want the same value both emit.
FiresAlone(devs, rule) == evaluate(devs, <<rule>>) # <<>>

C6_RulesJudgedOnInput ==
    (PassDone /\ DistinctNames(rules)) =>
        /\ \A k \in 1..Len(rules) :
             Cardinality(FiredBy(last.fired, rules, k))
                 = (IF FiresAlone(devices, rules[k]) THEN 1 ELSE 0)
        /\ \A i, j \in 1..Len(last.fired) :
             i < j =>
                \E k, l \in 1..Len(rules) :
                    /\ k < l
                    /\ last.fired[i].rule = rules[k].name
                    /\ last.fired[j].rule = rules[l].name

\* two rules that hold and want the same value of the same device both emit
C6_Witness ==
    /\ PassDone
    /\ Len(last.fired) >= 2
    /\ last.fired[1].deviceId = last.fired[2].deviceId
    /\ last.fired[1].newValue = last.fired[2].newValue
    /\ last.fired[1].newValue[1] = "bool"

\* C7: a '>' or '<' rule whose triggerValue does not parse as a number, or
\* whose trigger device has no currentTemp, emits nothing and raises no
\* error.
Unsatisfiable(devs, rule) ==
    /\ rule.triggerCondition \in {">", "<"}
    /\ \/ parseFloat(rule.triggerValue) = NaN
       \/ find(devs, rule.triggerDevice).currentTemp = Undef

C7_NeverFires ==
    (PassDone /\ DistinctNames(rules)) =>
        /\ last.errors = <<>>
        /\ \A k \in 1..Len(rules) :
             Unsatisfiable(devices, rules[k]) =>
                FiredBy(last.fired, rules, k) = {}

\* both cases in one pass, each with devices that exist and an action
\* device that is not yet in the desired state
C7_Witness ==
    /\ PassDone
    /\ \E k, l \in 1..Len(rules) :
         /\ rules[k].triggerCondition = ">"
         /\ parseFloat(rules[k].triggerValue) = NaN
         /\ rules[l].triggerCondition = "<"
         /\ Found(find(devices, rules[l].triggerDevice))
         /\ find(devices, rules[l].triggerDevice).currentTemp = Undef
         /\ \A r \in {rules[k], rules[l]} :
              /\ ~Dangling(devices, r)
              /\ r.actionType = "toggle"
              /\ find(devices, r.actionDevice).isOn
                     # JsBool(r.actionValue = S_on)

-----------------------------------------------------------------------------
\* C8: every mutation a pass emits becomes exactly one device write and one
\* feedback notification carrying the rule's name; every toggle or slider
\* edit becomes exactly one device write; and no rule, toggle or slider
\* write is issued otherwise.
IsRuleWrite(w) == w.origin = "rule"

IsUserWrite(w) == w.origin \in {"toggle", "slider"}

C8_Step ==
    LET added == IF Len(inflight') > Len(inflight)
                 THEN SubSeq(inflight', Len(inflight) + 1, Len(inflight'))
                 ELSE <<>>
        byRule == SelectSeq(added, IsRuleWrite)
        byUser == SelectSeq(added, IsUserWrite)
        fired  == last'.fired
        pass   == last'.kind \in {"devices", "rules"}
    IN  /\ Len(inflight') > Len(inflight) => inflight' = inflight \o added
        /\ pass => fired = evaluate(devices', rules')
        /\ ~pass => fired = <<>>
        /\ Len(byRule) = Len(fired)
        /\ \A i \in 1..Len(fired) :
             /\ byRule[i].coll = "devices" /\ byRule[i].op = "update"
             /\ byRule[i].id = fired[i].deviceId
             /\ byRule[i].field = fired[i].field
             /\ byRule[i].value = fired[i].newValue
        /\ pass =>
             /\ Len(last'.notes) = Len(fired)
             /\ \A i \in 1..Len(fired) :
                  last'.notes[i] = Feedback("Rule triggered: ",
                                            fired[i].rule, "success")
        /\ Len(byUser) = (IF last'.kind \in {"toggle", "slider"} THEN 1
                          ELSE 0)
        /\ last'.kind \in {"toggle", "slider"} =>
             /\ Len(added) = 1
             /\ added[1].origin = last'.kind
             /\ added[1].coll = "devices" /\ added[1].op = "update"
        /\ \A i \in 1..Len(added) :
             added[i].origin \in {"rule", "toggle", "slider", "seed",
                                  "telemetry", "form"}

C8_OneWriteOneNote == [][C8_Step]_vars

\* a pass in which two rules fired: two writes in flight, two notifications
C8_Witness ==
    /\ PassDone
    /\ Len(last.fired) = 2
    /\ Len(last.writes) = 2
    /\ Len(last.notes) = 2
    /\ last.notes[1].message[2] # last.notes[2].message[2]
    /\ Len(inflight) >= 2

\* C9: after a history feed update the buffer holds exactly the min(30, n)
\* samples of thermostat-1 with the largest timestamps among the n of the
\* snapshot, in ascending timestamp order, and no sample of another device.
ThermostatSamples(log) ==
    {i \in 1..Len(log) : log[i].deviceId = "thermostat-1"}

C9_HistoryWindow ==
    last.kind = "history" =>
        LET n    == Cardinality(ThermostatSamples(storeHistory))
            kept == {historyData[i] : i \in 1..Len(historyData)}
        IN  /\ Len(historyData) = (IF n < 30 THEN n ELSE 30)
            /\ \A i \in 1..Len(historyData) :
                 /\ historyData[i].deviceId = "thermostat-1"
                 /\ \E j \in 1..Len(storeHistory) :
                      storeHistory[j] = historyData[i]
            /\ \A i, j \in 1..Len(historyData) :
                 i < j =>
                    historyData[i].timestamp <= historyData[j].timestamp
            /\ \A j \in ThermostatSamples(storeHistory) :
                 storeHistory[j] \notin kept =>
                    \A i \in 1..Len(historyData) :
                        storeHistory[j].timestamp
                            <= historyData[i].timestamp

\* more than 30 samples of thermostat-1 came in, out of time order and mixed
\* with samples of another device, one of them written by this session
C9_Witness ==
    /\ last.kind = "history"
    /\ Cardinality(ThermostatSamples(storeHistory)) > 30
    /\ Len(historyData) = 30
    /\ \E j \in 1..Len(storeHistory) : storeHistory[j].deviceId = "fan-1"
    /\ \E j \in 1..Len(storeHistory) - 1 :
         storeHistory[j].timestamp > storeHistory[j + 1].timestamp
    /\ historyData[30].timestamp = clock
    /\ historyData[30].value # JsNum(DefaultTemp * Scale)

\* C10: no subscription and no write or append is issued, or in flight,
\* unless isAuthReady is true and userId is set; isAuthReady goes from false
\* to true once, when the sign-in call settles (success or failure), and
\* never back.
C10_Gated ==
    /\ (last.subs > 0 \/ last.writes # <<>> \/ inflight # <<>>) =>
            (isAuthReady /\ userId # "null")
    /\ authCall = "pending" => (~isAuthReady /\ userId = "null")
    /\ (authCall = "done" /\ mounted) => isAuthReady

C10_ReadyOnce ==
    /\ isAuthReady => isAuthReady'
    /\ (~isAuthReady /\ isAuthReady') =>
            (authCall = "pending" /\ authCall' = "done")
    /\ authCall = "done" => authCall' = "done"
    /\ userId # "null" => userId' = userId

C10_AuthGating == []C10_Gated /\ [][C10_ReadyOnce]_vars

\* sign-in failed, the session is ready without a userId, and the user has
\* submitted the rule form: nothing was subscribed, written or appended
C10_Witness ==
    /\ authCall = "done"
    /\ isAuthReady
    /\ userId = "null"
    /\ last.kind = "submit"
    /\ feedback.type = "error"

-----------------------------------------------------------------------------
\* C11: every failure of an external call is caught where the call is made
\* and becomes a logged message: no step leaves a rejection unhandled.
C11_FailuresCaught ==
    \A i \in 1..Len(last.errors) : last.errors[i] # "unhandled rejection"

\* C12: when a device write of the rules engine, a toggle or a slider is
\* rejected, the catch of the call logs one console.error and nothing else
\* happens: the local snapshot, the store and the feedback slot keep their
\* values and the write is not issued again.  A write of the rules engine
\* enters the queue only in the pass run by a devices or rules snapshot,
\* for a mutation that pass emits.
DeviceWriteLogs ==
    {<<"Error updating action device:">>, <<"Error toggling device:">>,
     <<"Error updating device value:">>}

C12_Step ==
    LET rejected == /\ inflight # <<>>
                    /\ last'.kind = "land"
                    /\ last'.errors \in DeviceWriteLogs
        added == IF Len(inflight') > Len(inflight)
                 THEN SubSeq(inflight', Len(inflight) + 1, Len(inflight'))
                 ELSE <<>>
    IN  /\ rejected =>
             /\ Head(inflight).origin \in {"rule", "toggle", "slider"}
             /\ Len(last'.errors) = 1
             /\ devices' = devices
             /\ storeDevices' = storeDevices
             /\ feedback' = feedback
             /\ last'.notes = <<>>
             /\ last'.writes = <<>>
             /\ inflight' = Tail(inflight)
        /\ (/\ inflight # <<>>
             /\ last'.kind = "land"
             /\ Head(inflight).origin \in {"rule", "toggle", "slider"}
             /\ storeDevices' = storeDevices
             /\ ~Applicable(storeDevices, Head(inflight))) =>
                last'.errors \in DeviceWriteLogs
        /\ \A i \in 1..Len(added) :
             added[i].origin = "rule" =>
                /\ last'.kind \in {"devices", "rules"}
                /\ \E j \in 1..Len(last'.fired) :
                     /\ last'.fired[j] \in
                            {evaluate(devices', rules')[k] :
                                k \in 1..Len(evaluate(devices', rules'))}
                     /\ added[i].by = last'.fired[j].rule
                     /\ added[i].id = last'.fired[j].deviceId
                     /\ added[i].value = last'.fired[j].newValue

-----------------------------------------------------------------------------
\* C13: a submission of the rule form with any of the six required fields
\* missing is rejected by handleRuleSubmit: no addDoc to the rules
\* collection is attempted and an error feedback is set.
FormComplete(r) ==
    /\ r.name # "" /\ r.triggerDevice # "" /\ r.triggerCondition # ""
    /\ r.triggerValue # S_none /\ r.actionDevice # ""
    /\ r.actionValue # S_none

C13_IncompleteRejected ==
    last.kind = "submit" =>
        /\ \A i \in 1..Len(last.writes) : FormComplete(last.writes[i].doc)
        /\ last.writes = <<>> =>
                last.notes = <<Feedback("All fields are required.", "",
                                        "error")>>

-----------------------------------------------------------------------------
\* C14: the six default devices are written only in reaction to a devices
\* snapshot with zero devices, as one batch of six; the batch is issued at
\* most once in a session; and a seed write is in flight only while its
\* document does not exist, so it never overwrites a device that a toggle,
\* a slider, a rule or the simulator has changed.
IsSeedWrite(w) == w.origin = "seed"

JustSeeded == SelectSeq(last.writes, IsSeedWrite) # <<>>

C14_SeedStep ==
    LET added == IF Len(inflight') > Len(inflight)
                 THEN SubSeq(inflight', Len(inflight) + 1, Len(inflight'))
                 ELSE <<>>
        seeds == SelectSeq(added, IsSeedWrite)
    IN  seeds # <<>> =>
            /\ last'.kind = "devices"
            /\ devices' = <<>>
            /\ storeDevices = EmptyStore
            /\ SelectSeq(inflight, IsSeedWrite) = <<>>
            /\ Len(seeds) = Len(mockDevices)
            /\ \A i \in 1..Len(seeds) :
                 /\ seeds[i].coll = "devices" /\ seeds[i].op = "set"
                 /\ seeds[i].id = mockDevices[i].id

C14_SeedOnAbsent ==
    \A i \in 1..Len(inflight) :
        IsSeedWrite(inflight[i]) => ~Found(storeDevices[inflight[i].id])

C14_SeedsOnce ==
    /\ [][C14_SeedStep]_vars
    /\ []C14_SeedOnAbsent
    /\ [](JustSeeded => [](~JustSeeded => []~JustSeeded))

\* the seeds are in flight, some have landed, and a later snapshot with
\* fewer than six devices was delivered without a second batch
C14_Witness ==
    /\ last.kind = "devices"
    /\ Len(devices) > 0
    /\ Len(devices) < Len(mockDevices)
    /\ ~JustSeeded
    /\ SelectSeq(inflight, IsSeedWrite) # <<>>

-----------------------------------------------------------------------------
\* C15: the unmount cancels the three listeners and the timer in one step;
\* from then on no callback changes the local state (devices, rules,
\* history, feedback, session identity) and no write is issued: the writes
\* already in flight settle and nothing joins them.
C15_Step ==
    /\ ~mounted =>
            /\ ~mounted'
            /\ devices' = devices
            /\ rules' = rules
            /\ historyData' = historyData
            /\ feedback' = feedback
            /\ userId' = userId
            /\ isAuthReady' = isAuthReady
            /\ last'.writes = <<>>
            /\ last'.fired = <<>>
            /\ last'.notes = <<>>
            /\ last'.subs = 0
            /\ \/ inflight' = inflight
               \/ inflight # <<>> /\ inflight' = Tail(inflight)
    /\ (mounted /\ ~mounted') =>
            /\ last'.kind = "unmount"
            /\ inflight' = inflight

\* no listener callback and no timer callback can run once unmounted
C15_Cancelled ==
    ~mounted =>
        /\ ~ENABLED DevicesSnapshot
        /\ ~ENABLED HistorySnapshot
        /\ ~ENABLED RulesSnapshot
        /\ ~ENABLED TelemetryTick

C15_Teardown == [][C15_Step]_vars /\ []C15_Cancelled

\* after the unmount a write that was in flight changed the devices
\* collection; the snapshot is not delivered and the local devices are the
\* old ones
C15_Witness ==
    /\ ~mounted
    /\ last.kind = "land"
    /\ ~devFresh
    /\ devices # <<>>
    /\ devices # DeviceList(storeDevices)
    /\ isAuthReady /\ userId # "null"

-----------------------------------------------------------------------------
\* C16: a tick of the simulator computes newValue = lastKnownValue + delta
\* with delta within 0.75 either way, lastKnownValue being the currentTemp
\* of thermostat-1 in the local snapshot, or 75 when it is unknown; it
\* issues one history append of thermostat-1 with newValue and one update
\* of thermostat-1.currentTemp to newValue, and no other write.
DeltaRange == {d \in (0 - Scale)..Scale : 4 * d >= 0 - 3 * Scale
                                          /\ 4 * d <= 3 * Scale}

lastKnownValue(devs) ==
    LET t == find(devs, "thermostat-1").currentTemp
    IN  IF t[1] = "num" THEN t[2] ELSE DefaultTemp * Scale

C16_TelemetryReading ==
    last.kind = "tick" =>
        /\ Len(last.writes) = 2
        /\ Len(inflight) >= 2
        /\ SubSeq(inflight, Len(inflight) - 1, Len(inflight)) = last.writes
        /\ LET h == last.writes[1]
               u == last.writes[2]
           IN  /\ h.coll = "history" /\ h.op = "add"
               /\ h.id = "thermostat-1"
               /\ u.coll = "devices" /\ u.op = "update"
               /\ u.id = "thermostat-1" /\ u.field = "currentTemp"
               /\ u.value = h.value
               /\ h.value[1] = "num"
               /\ (h.value[2] - lastKnownValue(devices)) \in DeltaRange

-----------------------------------------------------------------------------
\* C17: the engine keeps no state of its own: what a pass emits (mutations,
\* writes, notifications, in this order) is one function of the devices
\* and rules snapshots it is given, so two passes over the same snapshots
\* emit the same sequence, whatever was emitted, written or notified
\* before.
C17_Stateless ==
    PassDone =>
        /\ last.fired = evaluate(devices, rules)
        /\ SelectSeq(last.writes, IsRuleWrite)
               = engineWrites(evaluate(devices, rules))
        /\ last.notes = engineNotes(evaluate(devices, rules))
        /\ \A i \in 1..Len(last.fired) :
             \E k \in 1..Len(rules) :
                /\ last.fired[i].rule = rules[k].name
                /\ last.fired[i].deviceId = rules[k].actionDevice

\* a pass that emits again what an earlier pass emitted, while that
\* earlier write is still in flight and its notification is in the slot
C17_Witness ==
    /\ PassDone
    /\ last.fired # <<>>
    /\ Len(inflight) > Len(last.writes)
    /\ \E i \in 1..(Len(inflight) - Len(last.writes)) :
         inflight[i] = last.writes[1]

-----------------------------------------------------------------------------
\* C18: the condition of an '==' rule holds exactly when the trigger
\* device's isOn is a boolean equal to (triggerValue == "on"): "on" matches
\* a device that is on, any other triggerValue one that is off, and a
\* device without isOn (or with an isOn that is no boolean) matches
\* neither.  (Seen through what the rule emits: it fires exactly when the
\* condition holds and its action device is not at the action's value.)
EqualsHolds(devs, rule) ==
    \E t \in 1..Len(devs) :
        /\ devs[t].id = rule.triggerDevice
        /\ devs[t].isOn \in {JsTrue, JsFalse}
        /\ (devs[t].isOn = JsTrue) <=> (rule.triggerValue = S_on)

ActionPending(devs, rule) ==
    \E a \in 1..Len(devs) :
        /\ devs[a].id = rule.actionDevice
        /\ ~StrictEq(devs[a].isOn, actionValue(rule))

C18_EqualsCondition ==
    (PassDone /\ DistinctNames(rules)) =>
        \A k \in 1..Len(rules) :
            (rules[k].triggerCondition = "==" /\ ActionPending(devices,
                                                                rules[k]))
                => ((FiredBy(last.fired, rules, k) # {})
                        <=> EqualsHolds(devices, rules[k]))

\* one pass in which a rule with triggerValue "warm" fires on a light that
\* is off and a rule with "off" on the thermostat, which has no isOn, does
\* not fire although its action device is not at the wanted value
C18_Witness ==
    /\ PassDone
    /\ \E k, l \in 1..Len(rules) :
         /\ rules[k].triggerCondition = "=="
         /\ rules[k].triggerValue = S_warm
         /\ find(devices, rules[k].triggerDevice).isOn = JsFalse
         /\ FiredBy(last.fired, rules, k) # {}
         /\ rules[l].triggerCondition = "=="
         /\ rules[l].triggerValue = S_off
         /\ find(devices, rules[l].triggerDevice).isOn = Undef
         /\ Found(find(devices, rules[l].triggerDevice))
         /\ ActionPending(devices, rules[l])
         /\ FiredBy(last.fired, rules, l) = {}

-----------------------------------------------------------------------------
\* C19: with one 'toggle' rule whose trigger holds and whose action device
\* exists, under a fair feed and accepted writes, whenever the action
\* device's isOn is not (actionValue == "on") it later is, and from some
\* point on it stays so: a user toggle away from that value is undone by
\* the pass that the resulting snapshot runs.
Enforced ==
    \A k \in 1..Len(storeRules) :
        storeDevices[storeRules[k].actionDevice].isOn
            = JsBool(storeRules[k].actionValue = S_on)

C19_EnforcementRestored ==
    /\ (~Enforced) ~> Enforced
    /\ <>[](Enforced /\ inflight = <<>>)

\* every earlier write has settled, yet the pass run by a devices snapshot
\* fires: a toggle has moved the action device away from the rule's value
C19_Witness ==
    /\ last.kind = "devices"
    /\ last.fired # <<>>
    /\ inflight = last.writes
    /\ events >= 1
    /\ ~Enforced


-----------------------------------------------------------------------------
(* Passes that run while a rule's write is still in flight. *)

\* the writes that were in flight when the last step began
EarlierWrites == SubSeq(inflight, 1, Len(inflight) - Len(last.writes))

\* the updateDoc of line 188 that rule issued
IsWriteOf(w, rule) ==
    /\ w.origin = "rule"
    /\ w.by = rule.name
    /\ w.id = rule.actionDevice
    /\ w.field = "isOn"

\* a write of rule was in flight when the last step began
PendingBefore(rule) ==
    \E i \in 1..Len(EarlierWrites) : IsWriteOf(EarlierWrites[i], rule)

\* the last step wrote and notified for rule
IssuedBy(rule) ==
    /\ \E i \in 1..Len(last.writes) : IsWriteOf(last.writes[i], rule)
    /\ \E i \in 1..Len(last.notes) :
         last.notes[i] = Feedback("Rule triggered: ", rule.name, "success")

\* C20 (as stated): a pass that runs while a write of a rule is in flight
\* issues no second write and no second notification for that rule.
C20_NoDuplicateInFlight ==
    PassDone =>
        \A k \in 1..Len(rules) :
            PendingBefore(rules[k]) => ~IssuedBy(rules[k])

\* C20 (amended): a write in flight does not hold a rule back.  A pass that
\* runs while a write of a rule is in flight writes and notifies for that
\* rule again exactly when the rule still fires on the local snapshot
\* (condition met, action device's isOn not the action's value); the second
\* write carries the value of the one in flight.
C20_ReissuedWhileInFlight ==
    PassDone =>
        \A k \in 1..Len(rules) :
            PendingBefore(rules[k]) =>
                /\ IssuedBy(rules[k]) <=> (ruleBody(devices, rules[k]) # <<>>)
                /\ \A i \in 1..Len(EarlierWrites), j \in 1..Len(last.writes) :
                     (/\ IsWriteOf(EarlierWrites[i], rules[k])
                      /\ IsWriteOf(last.writes[j], rules[k]))
                        => last.writes[j].value = EarlierWrites[i].value

\* a pass has written and notified a second time for a rule whose first
\* write has not settled
C20_Witness ==
    /\ PassDone
    /\ \E k \in 1..Len(rules) :
         /\ PendingBefore(rules[k])
         /\ IssuedBy(rules[k])
         /\ \E i \in 1..Len(inflight), j \in 1..Len(inflight) :
              /\ i < j
              /\ IsWriteOf(inflight[i], rules[k])
              /\ inflight[j] = inflight[i]


-----------------------------------------------------------------------------
(* Toggles against a stale card. *)

ToggleDone == last.kind = "toggle"

\* the isOn the card of device id shows
shown(devs, id) ==
    LET i == CHOOSE k \in 1..Len(devs) : devs[k].id = id
    IN  devs[i].isOn

\* the write that settles in this step is an accepted toggle
ToggleLands ==
    /\ inflight # <<>>
    /\ Head(inflight).origin = "toggle"
    /\ last'.kind = "land"
    /\ last'.errors = <<>>

C21_Step ==
    /\ ToggleDone' =>
            last'.writes[1].value
                = JsNot(shown(devices, last'.writes[1].id))
    /\ (ToggleDone /\ ToggleDone' /\ devices' = devices
            /\ last'.writes[1].id = last.writes[1].id) =>
            last'.writes[1].value = last.writes[1].value
    /\ ToggleLands =>
            storeDevices'[Head(inflight).id].isOn = Head(inflight).value

\* C21: handleToggle writes the negation of the isOn the card shows, not
\* of the persisted one: a second click on the same button before the
\* feed has delivered the first write writes the same value again, and a
\* toggle write that lands sets isOn to its value (it does not flip it), so
\* after both have landed isOn is the negation of what the card showed:
\* one flip.
C21_ToggleFromSnapshot == [][C21_Step]_vars

\* two clicks on one button against the same card: both writes settled and
\* the store holds the negation of what the card still shows
C21_Witness ==
    /\ events = 2
    /\ last.kind = "land"
    /\ inflight = <<>>
    /\ ~devFresh
    /\ devices = DeviceList(SeededStore)
    /\ \E id \in {"light-1", "fan-1"} :
         /\ storeDevices[id].isOn = JsNot(shown(devices, id))
         /\ \A other \in DeviceIds \ {id} :
                storeDevices[other] = SeededStore[other]


-----------------------------------------------------------------------------
\* the local snapshot holds the six default devices, each under its id and
\* of its type
AllDefaults(devs) ==
    /\ Len(devs) = Len(mockDevices)
    /\ \A i \in 1..Len(mockDevices) :
         \E k \in 1..Len(devs) :
            /\ devs[k].id = mockDevices[i].id
            /\ devs[k].type = mockDevices[i].type

\* C22: a ready session with a userId whose devices feed delivers an empty
\* snapshot, under a fair feed and a store that accepts the writes,
\* eventually shows the six default devices, each under its fixed id, and
\* from then on always does: the snapshot is never empty again.
C22_FreshSessionFilled ==
    /\ <>AllDefaults(devices)
    /\ [](AllDefaults(devices) => [](devices # <<>> /\ AllDefaults(devices)))

\* the delivery that completes the six devices after the seeding
C22_Witness ==
    /\ last.kind = "devices"
    /\ AllDefaults(devices)
    /\ storeDevices # EmptyStore
    /\ \A i \in 1..Len(inflight) : ~IsSeedWrite(inflight[i])


-----------------------------------------------------------------------------
\* C23: when sign-in fails in a mounted session the failure is logged, the
\* session becomes ready, and it has a usable identity under which the
\* three listeners, the simulator and the engine start.  (No later step
\* sets userId: the catch of lines 69-72 is the only place that could.)
C23_DegradesToAnonymous ==
    (last.kind = "auth-failed" /\ mounted) =>
        /\ last.errors = <<"Error during authentication:">>
        /\ isAuthReady
        /\ userId # "null"
        /\ Listening
        /\ last.subs = 3


-----------------------------------------------------------------------------
(* What a pass of the engine touches. *)

\* the fields of a device document other than isOn
OtherFields == {"id", "type", "currentTemp", "targetTemp", "brightness"}

\* w is the updateDoc of a rule of rs that fires on devs: one field, isOn,
\* of that rule's action device
FiringRuleWrite(w, devs, rs) ==
    /\ w.coll = "devices"
    /\ w.op = "update"
    /\ w.field = "isOn"
    /\ w.doc = NoRule
    /\ \E k \in 1..Len(rs) :
         /\ rs[k].name = w.by
         /\ rs[k].actionDevice = w.id
         /\ ruleBody(devs, rs[k]) # <<>>

\* the write that settles in this step was issued by the engine
RuleWriteSettles ==
    /\ inflight # <<>>
    /\ Head(inflight).origin = "rule"
    /\ last'.kind = "land"

C24_Step ==
    /\ PassDone' =>
            /\ storeDevices' = storeDevices
            /\ storeRules' = storeRules
            /\ storeHistory' = storeHistory
            /\ historyData' = historyData
            /\ inflight' = inflight \o last'.writes
            /\ \A i \in 1..Len(last'.writes) :
                 \/ IsSeedWrite(last'.writes[i])
                 \/ /\ IsRuleWrite(last'.writes[i])
                    /\ FiringRuleWrite(last'.writes[i], devices', rules')
    /\ RuleWriteSettles =>
            /\ storeRules' = storeRules
            /\ storeHistory' = storeHistory
            /\ \A id \in DeviceIds :
                 /\ id # Head(inflight).id =>
                        storeDevices'[id] = storeDevices[id]
                 /\ \A f \in OtherFields :
                        storeDevices'[id][f] = storeDevices[id][f]

\* C24: a pass of the engine changes no store by itself; what it issues
\* are single-field updates of isOn, one per rule that fires, each to that
\* rule's action device (the trigger device only when it is the action
\* device too); when such a write settles, no other device, no other field
\* of that device (type, currentTemp, targetTemp, brightness), no rule and
\* no history sample changes.
C24_PassFrame == [][C24_Step]_vars

\* the write of a rule whose trigger is another device has settled and
\* has changed isOn of its action device
C24_Witness ==
    /\ last.kind = "land"
    /\ last.errors = <<>>
    /\ ~devFresh
    /\ \E k \in 1..Len(rules) :
         /\ rules[k].triggerDevice # rules[k].actionDevice
         /\ storeDevices[rules[k].actionDevice].isOn
                # find(devices, rules[k].actionDevice).isOn
         /\ storeDevices[rules[k].triggerDevice]
                = find(devices, rules[k].triggerDevice)


=============================================================================
